---- MODULE Spec2Model ----
(***************************************************************************)
(* A model of src/app.py, the APEC-RISE text harmonization tool: the       *)
(* upload dispatch, the file readers, scan_text, scan_pdf, the             *)
(* named-entity exception and the summary rendering.                       *)
(*                                                                         *)
(* Text is a sequence of one-character strings.  Offsets are 0-based and   *)
(* half-open as in Python: Slice(s, a, b) is s[a:b].                       *)
(***************************************************************************)
EXTENDS Naturals, Integers, Sequences, FiniteSets, TLC

(* ------------------------------ bounds --------------------------------- *)

\* the number of dictionary words a generated document holds at most
MaxWords == 2

\* the number of letters of the filler line used to build long blocks
FillerLen == 51

(* -------------------------- program constants -------------------------- *)

\* scan_text(text, banned_dict, chars_per_page=1800)
chars_per_page == 1800

\* text[max(0, start - 40): ...]
WindowBefore == 40

\* text[...: min(len(text), ... + 60)]
WindowAfter == 60

(* ----------------------------- characters ------------------------------ *)

UpperLetters ==
  <<"A","B","C","D","E","F","G","H","I","J","K","L","M",
    "N","O","P","Q","R","S","T","U","V","W","X","Y","Z">>

LowerLetters ==
  <<"a","b","c","d","e","f","g","h","i","j","k","l","m",
    "n","o","p","q","r","s","t","u","v","w","x","y","z">>

Digits == <<"0","1","2","3","4","5","6","7","8","9">>

Range(s) == { s[i] : i \in DOMAIN s }

UpperSet == Range(UpperLetters)

\* A character is a one-character string; a control character and a
\* character of U+0080 to U+00FF stand in a string as themselves.  A
\* character above U+00FF, which this notation cannot write, is denoted by
\* its code point: "U+017F" is the long s.  The alphabet of the model is
\* ASCII, the white space of Unicode and the letters below that
\* re.IGNORECASE equates with an ASCII letter.

\* str.lower() on each ASCII upper-case letter
ToLower ==
  [c \in UpperSet |->
     LowerLetters[CHOOSE i \in DOMAIN UpperLetters : UpperLetters[i] = c]]

\* The lower case of one character as the re module computes it under
\* re.IGNORECASE (one character to one character): U+0130, the capital I
\* with dot, and U+212A, the Kelvin sign, have the ASCII lower case i and k.
SimpleLower(c) ==
  IF c \in UpperSet THEN ToLower[c]
  ELSE IF c = "U+0130" THEN "i"
  ELSE IF c = "U+212A" THEN "k"
  ELSE c

\* str.lower() on one character: as SimpleLower, but U+0130 becomes the two
\* characters i, U+0307 (combining dot above)
LowerChar(c) == IF c = "U+0130" THEN <<"i", "U+0307">> ELSE <<SimpleLower(c)>>

RECURSIVE LowerFrom(_, _)
LowerFrom(s, i) ==
  IF i > Len(s) THEN <<>> ELSE LowerChar(s[i]) \o LowerFrom(s, i + 1)

\* str.lower(): character by character; a string without U+0130 keeps its
\* length
Lower(s) ==
  IF \A i \in DOMAIN s : s[i] # "U+0130"
    THEN [i \in DOMAIN s |-> SimpleLower(s[i])]
    ELSE LowerFrom(s, 1)

\* The lower-case characters re.IGNORECASE equates with the lower-case
\* character lo besides lo itself: the dotless i (U+0131) with i, the
\* long s (U+017F) with s.
CaseFixes(lo) ==
  IF lo = "i" THEN {"U+0131"}
  ELSE IF lo = "U+0131" THEN {"i"}
  ELSE IF lo = "s" THEN {"U+017F"}
  ELSE IF lo = "U+017F" THEN {"s"}
  ELSE {}

\* the characters of the alphabet that have a case
CasedSet ==
  Range(UpperLetters) \cup Range(LowerLetters)
    \cup {"U+0130", "U+0131", "U+017F", "U+212A"}

\* the literal pattern character pc matches the text character tc under
\* re.IGNORECASE
MatchChar(pc, tc) ==
  LET lo == SimpleLower(pc)
      lc == SimpleLower(tc)
  IN lc = lo \/ lc \in CaseFixes(lo)

\* the characters str.strip() removes: those for which str.isspace() holds
\* (U+0009 to U+000D, U+001C to U+001F, the space, U+0085, U+00A0 and the
\* spaces and separators above U+00FF)
Whitespace ==
  {"\t", "\n", "", "\f", "\r", "", "", "", "", " ", "", " ",
    "U+1680", "U+2000", "U+2001", "U+2002", "U+2003", "U+2004",
    "U+2005", "U+2006", "U+2007", "U+2008", "U+2009", "U+200A",
    "U+2028", "U+2029", "U+202F", "U+205F", "U+3000"}

Max(a, b) == IF a >= b THEN a ELSE b

Min(a, b) == IF a <= b THEN a ELSE b

\* s[a:b]
Slice(s, a, b) == SubSeq(s, a + 1, b)

\* sub in s (Python's substring test)
Contains(s, sub) ==
  \/ sub = <<>>
  \/ \E i \in 0..(Len(s) - Len(sub)) :
       /\ s[i + 1] = sub[1]
       /\ \A k \in DOMAIN sub : s[i + k] = sub[k]

\* s.replace('\n', ' ')
ReplaceNewlines(s) == [i \in DOMAIN s |-> IF s[i] = "\n" THEN " " ELSE s[i]]

RECURSIVE LStrip(_)
LStrip(s) ==
  IF s # <<>> /\ s[1] \in Whitespace THEN LStrip(Tail(s)) ELSE s

RECURSIVE RStrip(_)
RStrip(s) ==
  IF s # <<>> /\ s[Len(s)] \in Whitespace
    THEN RStrip(SubSeq(s, 1, Len(s) - 1))
    ELSE s

\* str.strip()
Strip(s) == RStrip(LStrip(s))

\* sep.join(parts), for sequences of character sequences
RECURSIVE Join(_, _)
Join(sep, parts) ==
  IF parts = <<>> THEN <<>>
  ELSE IF Len(parts) = 1 THEN parts[1]
  ELSE parts[1] \o sep \o Join(sep, Tail(parts))

\* str(n) for 0 <= n <= 99
IntToStr(n) ==
  IF n < 10 THEN <<Digits[n + 1]>>
  ELSE <<Digits[(n \div 10) + 1], Digits[(n % 10) + 1]>>

(* ----------------------------- dictionary ------------------------------ *)

T_national == <<"n","a","t","i","o","n","a","l">>

T_Taiwan == <<"T","a","i","w","a","n">>

\* banned_terms_dict: the entries in the order the source lists them (the
\* order dict.items() yields).  Every replacement list holds one phrase, an
\* opaque string.
banned_terms_dict ==
  <<
     [term |-> <<"a","c","c","e","s","s","i","b","l","e">>,
      suggestions |-> << <<"reachable; usable; broadly available">> >>],
     [term |-> <<"a","c","t","i","v","i","s","m">>,
      suggestions |-> << <<"stakeholder engagement; issue-focused participation">> >>],
     [term |-> <<"a","n","t","i","-","r","a","c","i","s","m">>,
      suggestions |-> << <<"addressing discrimination">> >>],
     [term |-> <<"b","i","a","s">>,
      suggestions |-> << <<"subjective influence">> >>],
     [term |-> <<"c","l","e","a","n"," ","e","n","e","r","g","y">>,
      suggestions |-> << <<"energy diversification; secure energy sourcing">> >>],
     [term |-> <<"c","l","i","m","a","t","e"," ","c","h","a","n","g","e">>,
      suggestions |-> << <<"environmental shifts">> >>],
     [term |-> <<"c","l","i","m","a","t","e"," ","c","r","i","s","i","s">>,
      suggestions |-> << <<"environmental conditions; weather-related impacts">> >>],
     [term |-> <<"c","l","i","m","a","t","e"," ","s","c","i","e","n","c","e">>,
      suggestions |-> << <<"environmental data">> >>],
     [term |-> <<"c","o","u","n","t","r","y">>,
      suggestions |-> << <<"economy">> >>],
     [term |-> <<"D","E","I">>,
      suggestions |-> << <<"broad participation; inclusive stakeholder engagement">> >>],
     [term |-> <<"D","E","I","A">>,
      suggestions |-> << <<"broad participation; inclusive stakeholder engagement">> >>],
     [term |-> <<"d","i","s","a","b","i","l","i","t","y">>,
      suggestions |-> << <<"persons with disabilities">> >>],
     [term |-> <<"d","i","v","e","r","s","e">>,
      suggestions |-> << <<"varied">> >>],
     [term |-> <<"d","i","v","e","r","s","e"," ","b","a","c","k","g","r","o","u","n","d","s">>,
      suggestions |-> << <<"varied experiences">> >>],
     [term |-> <<"d","i","v","e","r","s","e"," ","c","o","m","m","u","n","i","t","i","e","s">>,
      suggestions |-> << <<"different population groups">> >>],
     [term |-> <<"d","i","v","e","r","s","e"," ","c","o","m","m","u","n","i","t","y">>,
      suggestions |-> << <<"broad-based community">> >>],
     [term |-> <<"d","i","v","e","r","s","e"," ","g","r","o","u","p">>,
      suggestions |-> << <<"multifaceted group">> >>],
     [term |-> <<"d","i","v","e","r","s","e"," ","g","r","o","u","p","s">>,
      suggestions |-> << <<"multiple stakeholder groups">> >>],
     [term |-> <<"d","i","v","e","r","s","i","f","i","e","d">>,
      suggestions |-> << <<"varied">> >>],
     [term |-> <<"d","i","v","e","r","s","i","f","y">>,
      suggestions |-> << <<"broaden">> >>],
     [term |-> <<"d","i","v","e","r","s","i","f","y","i","n","g">>,
      suggestions |-> << <<"expanding">> >>],
     [term |-> <<"d","i","v","e","r","s","i","t","y">>,
      suggestions |-> << <<"variety">> >>],
     [term |-> <<"e","q","u","a","l"," ","o","p","p","o","r","t","u","n","i","t","y">>,
      suggestions |-> << <<"merit-based opportunity; fair process">> >>],
     [term |-> <<"e","q","u","i","t","y">>,
      suggestions |-> << <<"fair access">> >>],
     [term |-> <<"g","e","n","d","e","r">>,
      suggestions |-> << <<"demographics">> >>],
     [term |-> <<"g","e","n","d","e","r"," ","m","a","i","n","s","t","r","e","a","m","i","n","g">>,
      suggestions |-> << <<"gender considerations">> >>],
     [term |-> <<"g","e","n","d","e","r","-","r","e","s","p","o","n","s","i","v","e">>,
      suggestions |-> << <<"inclusive of gender perspectives">> >>],
     [term |-> <<"G","u","l","f"," ","o","f"," ","M","e","x","i","c","o">>,
      suggestions |-> << <<"Gulf of America">> >>],
     [term |-> <<"i","n","c","l","u","s","i","o","n">>,
      suggestions |-> << <<"broad-based participation">> >>],
     [term |-> <<"i","n","c","l","u","s","i","v","e">>,
      suggestions |-> << <<"participatory">> >>],
     [term |-> <<"i","n","c","l","u","s","i","v","e"," ","l","e","a","d","e","r","s","h","i","p">>,
      suggestions |-> << <<"broad-based leadership">> >>],
     [term |-> <<"i","n","c","l","u","s","i","v","e","n","e","s","s">>,
      suggestions |-> << <<"broad engagement">> >>],
     [term |-> <<"i","n","c","l","u","s","i","v","i","t","y">>,
      suggestions |-> << <<"collaborative approaches">> >>],
     [term |-> <<"i","n","e","q","u","a","l","i","t","y">>,
      suggestions |-> << <<"gaps in access or opportunity">> >>],
     [term |-> <<"n","a","t","i","o","n","a","l">>,
      suggestions |-> << <<"domestic">> >>],
     [term |-> <<"n","o","n","-","b","i","n","a","r","y">>,
      suggestions |-> << <<"gender-diverse">> >>],
     [term |-> <<"n","o","n","b","i","n","a","r","y">>,
      suggestions |-> << <<"gender-diverse">> >>],
     [term |-> <<"o","p","p","r","e","s","s","i","o","n">>,
      suggestions |-> << <<"restrictive conditions; limiting environments">> >>],
     [term |-> <<"o","p","p","r","e","s","s","i","v","e">>,
      suggestions |-> << <<"restrictive; limiting">> >>],
     [term |-> <<"s","o","c","i","a","l"," ","j","u","s","t","i","c","e">>,
      suggestions |-> << <<"fair policy outcomes; community fairness">> >>],
     [term |-> <<"s","o","c","i","o","e","c","o","n","o","m","i","c">>,
      suggestions |-> << <<"economic background; living conditions">> >>],
     [term |-> <<"T","a","i","w","a","n">>,
      suggestions |-> << <<"Chinese Taipei">> >>],
     [term |-> <<"v","i","c","t","i","m">>,
      suggestions |-> << <<"impacted individual; affected party">> >>],
     [term |-> <<"v","u","l","n","e","r","a","b","l","e"," ","p","o","p","u","l","a","t","i","o","n","s">>,
      suggestions |-> << <<"underrepresented stakeholders">> >>]
  >>

\* the list ["national", "taiwan"] of scan_text and scan_pdf
ContextTerms ==
  { <<"n","a","t","i","o","n","a","l">>, <<"t","a","i","w","a","n">> }

(* ------------------------------ matcher -------------------------------- *)

\* re.compile(rf"\\b({re.escape(term)})\\b", re.IGNORECASE).  In a raw
\* f-string "\\b" is two backslashes and a b: the regular expression reads
\* \\b(term)\\b, whose \\ matches one literal backslash and whose b matches
\* the letter b.  re.escape makes every character of the term literal.  The
\* compiled pattern is therefore the literal text  \b term \b  matched
\* without regard to case, with the term as group 1.
CompilePattern(term) ==
  [pre |-> <<"\\", "b">>, group |-> term, post |-> <<"\\", "b">>]

PatternText(p) == p.pre \o p.group \o p.post

\* the literal text lit of a pattern matches text at 0-based offset i,
\* character by character under re.IGNORECASE
MatchAt(lit, text, i) ==
  /\ i + Len(lit) <= Len(text)
  /\ \A k \in 1..Len(lit) : MatchChar(lit[k], text[i + k])

\* every offset of text at which the pattern matches.  A first character
\* of the pattern that has no case (the backslash) matches itself alone:
\* the matches then start at the offsets holding it.
MatchStarts(p, text) ==
  LET lit == PatternText(p)
      offsets == 0..(Len(text) - Len(lit))
  IN IF lit[1] \in CasedSet
       THEN { i \in offsets : MatchAt(lit, text, i) }
       ELSE { i \in { j \in offsets : text[j + 1] = lit[1] } :
                MatchAt(lit, text, i) }

\* the leftmost match at or after offset from, then the leftmost one at or
\* after its end, and so on: each with start(), end(), group() and the span
\* of group 1
RECURSIVE TakeFrom(_, _, _, _)
TakeFrom(p, text, starts, from) ==
  LET later == { i \in starts : i >= from }
      n == Len(PatternText(p))
  IN IF later = {} THEN <<>>
     ELSE LET i == CHOOSE x \in later : \A y \in later : x <= y
          IN << [start  |-> i,
                 end    |-> i + n,
                 group  |-> Slice(text, i, i + n),
                 gstart |-> i + Len(p.pre),
                 gend   |-> i + Len(p.pre) + Len(p.group)] >>
             \o TakeFrom(p, text, starts, i + n)

\* pattern.finditer(text): the non-overlapping matches, left to right
finditer(p, text) == TakeFrom(p, text, MatchStarts(p, text), 0)

\* scan_text: text[max(0, start - 40): min(len(text), start + 60)]
\*            .replace('\n', ' ')
SnippetText(text, m) ==
  ReplaceNewlines(Slice(text, Max(0, m.start - WindowBefore),
                              Min(Len(text), m.start + WindowAfter)))

\* scan_pdf: text[max(0, match.start() - 40): min(len(text), match.end() + 60)]
\*           .replace('\n', ' ')
SnippetPdf(text, m) ==
  ReplaceNewlines(Slice(text, Max(0, m.start - WindowBefore),
                              Min(Len(text), m.end + WindowAfter)))

\* f"...{snippet.strip()}..."
ContextOf(snippet) == <<".", ".", ".">> \o Strip(snippet) \o <<".", ".", ".">>

\* max(1, (start // chars_per_page) + 1)
estimated_page(start) == Max(1, (start \div chars_per_page) + 1)

(* ----------------------- named-entity recognizer ----------------------- *)

\* What the recognizer may answer for the snippet of a match.  The spaCy
\* pipeline is a library the program loads and does not control; an entity
\* it returns is a span of the snippet with a label.  is_named_entity asks
\* of every entity only whether its text holds the term and whether its
\* label is ORG, and a span holds the term only if the whole snippet does.
\* The answers are therefore: no entity ("NONE"); the widest span, the
\* snippet itself, as an organization ("ORG") or as a geopolitical entity
\* ("GPE"); an organization whose text does not hold the term ("ORG_ELSE",
\* kept as the snippet's first character).
NerAnswers == {"NONE", "ORG", "GPE", "ORG_ELSE"}

\* nlp(snippet).ents under answer a, for match m of text
doc_ents(a, text, m, snippet) ==
  CASE a = "NONE" -> <<>>
    [] a = "ORG_ELSE" -> <<[text |-> SubSeq(snippet, 1, 1), label |-> "ORG"]>>
    [] OTHER -> <<[text |-> snippet, label |-> a]>>

\* is_named_entity with the test of the label left out
is_named_entity_any_label(ents, term) ==
  \E i \in DOMAIN ents : Contains(Lower(ents[i].text), Lower(term))

\* is_named_entity(snippet, term), ents being nlp(snippet).ents
is_named_entity(ents, term) ==
  \E i \in DOMAIN ents :
    Contains(Lower(ents[i].text), Lower(term)) /\ ents[i].label = "ORG"

\* term.lower() in ["national", "taiwan"], the left operand of the "and"
IsContextTerm(term) == Lower(term) \in ContextTerms

\* The answers the recognizer may give for the matches ms of a
\* term: Python's "and" calls is_named_entity only for a context term, so
\* for any other term the recognizer is not asked ("NOT_ASKED").
AnswersFor(term, ms) ==
  IF ms = <<>> THEN { <<>> }
  ELSE [DOMAIN ms -> IF IsContextTerm(term) THEN NerAnswers ELSE {"NOT_ASKED"}]

\* term.lower() in ["national", "taiwan"] and is_named_entity(snippet, term)
SkipsMatch(a, text, m, snippet, term) ==
  IsContextTerm(term) /\ is_named_entity(doc_ents(a, text, m, snippet), term)

(* ----------------------------- scan loops ------------------------------ *)

\* results, skipped = [], [], with the history of the scan: the origin of
\* every record and the matches the patterns have yielded
EmptyScan ==
  [results |-> <<>>, skipped |-> <<>>, results_at |-> <<>>, skipped_at |-> <<>>,
   matched |-> {}]

\* the history acc with the matches ms of entry ti in block block
Yielded(acc, block, ti, ms) ==
  [acc EXCEPT !.matched =
     @ \cup { <<block, ti, ms[k].start>> : k \in DOMAIN ms }]

\* The record appended to skipped
SkippedRecord(m, page, snippet) ==
  [SkippedTerm |-> m.group, Page |-> page, Context |-> ContextOf(snippet)]

\* The record appended to results
ResultRecord(m, page, snippet, suggestions) ==
  [BannedTerm |-> m.group, Page |-> page, Context |-> ContextOf(snippet),
   Suggested |-> Join(<<", ">>, suggestions)]

\* Where a record came from (history, not program state): the dictionary
\* index of the term, the 1-based page scanned (0 in scan_text), the span of
\* the match and of its group 1 in the scanned text, the snippet, and the
\* recognizer's answer for that snippet.
Origin(ti, block, m, snippet, a) ==
  [term |-> ti, block |-> block, start |-> m.start, end |-> m.end,
   gstart |-> m.gstart, gend |-> m.gend, snippet |-> snippet, answer |-> a]

\* AddMatch with the records put at the front of the lists
AddMatchAtFront(acc, a, ti, block, text, m, page, snippet) ==
  LET e == banned_terms_dict[ti]
  IN IF SkipsMatch(a, text, m, snippet, e.term)
       THEN [acc EXCEPT
               !.skipped = <<SkippedRecord(m, page, snippet)>> \o @,
               !.skipped_at = <<Origin(ti, block, m, snippet, a)>> \o @]
       ELSE [acc EXCEPT
               !.results = <<ResultRecord(m, page, snippet, e.suggestions)>> \o @,
               !.results_at = <<Origin(ti, block, m, snippet, a)>> \o @]

\* AddMatch with the skip branch continuing without recording the match
AddMatchDropSkipped(acc, a, ti, block, text, m, page, snippet) ==
  LET e == banned_terms_dict[ti]
  IN IF SkipsMatch(a, text, m, snippet, e.term)
       THEN acc
       ELSE [acc EXCEPT
               !.results = Append(@, ResultRecord(m, page, snippet, e.suggestions)),
               !.results_at = Append(@, Origin(ti, block, m, snippet, a))]

\* One pass of "for match in pattern.finditer(text)": either the skip branch
\* (append to skipped, continue) or the append to results.
AddMatch(acc, a, ti, block, text, m, page, snippet) ==
  LET e == banned_terms_dict[ti]
  IN IF SkipsMatch(a, text, m, snippet, e.term)
       THEN [acc EXCEPT
               !.skipped = Append(@, SkippedRecord(m, page, snippet)),
               !.skipped_at = Append(@, Origin(ti, block, m, snippet, a))]
       ELSE [acc EXCEPT
               !.results = Append(@, ResultRecord(m, page, snippet, e.suggestions)),
               !.results_at = Append(@, Origin(ti, block, m, snippet, a))]

\* scan_text's inner loop over the matches ms of dictionary entry ti from
\* the k-th on; answers[k] is the recognizer's answer for the k-th snippet
RECURSIVE TextMatches(_, _, _, _, _, _)
TextMatches(acc, answers, ti, text, ms, k) ==
  IF k > Len(ms) THEN acc
  ELSE TextMatches(
         AddMatch(acc, answers[k], ti, 0, text, ms[k],
                  estimated_page(ms[k].start), SnippetText(text, ms[k])),
         answers, ti, text, ms, k + 1)

\* scan_pdf's inner loop over the matches ms of entry ti on page page_no
RECURSIVE PdfMatches(_, _, _, _, _, _, _)
PdfMatches(acc, answers, ti, page_no, text, ms, k) ==
  IF k > Len(ms) THEN acc
  ELSE PdfMatches(
         AddMatch(acc, answers[k], ti, page_no, text, ms[k], page_no,
                  SnippetPdf(text, ms[k])),
         answers, ti, page_no, text, ms, k + 1)

\* The recognizer is a library whose answers the program does not control:
\* a scan of one text has one outcome for every choice of answers.

\* scan_text, one pass of "for term, suggestions in banned_dict.items()",
\* ms being pattern.finditer(text) for entry ti: the lists it may leave,
\* run from each of the lists accs
TextTerm(accs, text, ti, ms) ==
  { TextMatches(Yielded(acc, 0, ti, ms), answers, ti, text, ms, 1) :
      acc \in accs, answers \in AnswersFor(banned_terms_dict[ti].term, ms) }

\* scan_text's loop over the dictionary from entry ti on
RECURSIVE TextTerms(_, _, _)
TextTerms(accs, text, ti) ==
  IF ti > Len(banned_terms_dict) THEN accs
  ELSE TextTerms(
         TextTerm(accs, text, ti,
                  finditer(CompilePattern(banned_terms_dict[ti].term), text)),
         text, ti + 1)

\* scan_text(text, banned_terms_dict): the results and skipped it may return
scan_text(text) == TextTerms({EmptyScan}, text, 1)

\* scan_pdf, one pass of the loop over the dictionary on page page_no, whose
\* text is text, ms being pattern.finditer(text) for entry ti
PdfTerm(accs, page_no, text, ti, ms) ==
  { PdfMatches(Yielded(acc, page_no, ti, ms), answers, ti, page_no, text, ms, 1) :
      acc \in accs, answers \in AnswersFor(banned_terms_dict[ti].term, ms) }

\* scan_pdf's loop over the dictionary on one page from entry ti on
RECURSIVE PdfTerms(_, _, _, _)
PdfTerms(accs, page_no, text, ti) ==
  IF ti > Len(banned_terms_dict) THEN accs
  ELSE PdfTerms(
         PdfTerm(accs, page_no, text, ti,
                 finditer(CompilePattern(banned_terms_dict[ti].term), text)),
         page_no, text, ti + 1)

(* ------------------------------- readers ------------------------------- *)

\* read_txt: the decoded content of the file
read_txt(file) == file.blocks[1]

\* read_docx: "\n".join([para.text for para in doc.paragraphs])
read_docx(file) == Join(<<"\n">>, file.blocks)

\* f"[Slide {slide_num}] {shape.text}"
SlideRun(slide_num, shape_text) ==
  <<"[", "S", "l", "i", "d", "e", " ">> \o IntToStr(slide_num)
    \o <<"]", " ">> \o shape_text

\* "for shape in slide.shapes: if hasattr(shape, 'text'): text_runs.append(...)"
\* for the shapes of slide slide_num
RECURSIVE ShapeRuns(_, _)
ShapeRuns(slide_num, shapes) ==
  IF shapes = <<>> THEN <<>>
  ELSE (IF Head(shapes).has_text
          THEN <<SlideRun(slide_num, Head(shapes).text)>>
          ELSE <<>>)
       \o ShapeRuns(slide_num, Tail(shapes))

\* "for slide_num, slide in enumerate(prs.slides, start=1)" from slide
\* slide_num on: text_runs
RECURSIVE text_runs(_, _)
text_runs(slides, slide_num) ==
  IF slide_num > Len(slides) THEN <<>>
  ELSE ShapeRuns(slide_num, slides[slide_num])
       \o text_runs(slides, slide_num + 1)

\* read_pptx: "\n".join(text_runs)
read_pptx(file) == Join(<<"\n">>, text_runs(file.slides, 1))

(* ------------------------------- inputs -------------------------------- *)

\* the words a generated document is built from: dictionary terms as they
\* may appear in a document
Words == { T_Taiwan, T_national, <<"B","i","a","s">> }

Backslash_b == <<"\\", "b">>

\* a line of FillerLen letters, with the newline before and after it
Filler == <<"\n">> \o [i \in 1..FillerLen |-> "x"] \o <<"\n">>

\* what stands between two words inside one block
Separators == { Backslash_b, Backslash_b \o Backslash_b, Filler }

\* a block boundary (a page or paragraph break, the next text shape of a
\* deck), with the text that ends the block before it and starts the block
\* after it, and whether in a deck the next shape is on a new slide
Breaks == { [before |-> <<>>, after |-> <<>>, new_slide |-> FALSE],
            [before |-> Backslash_b, after |-> Backslash_b, new_slide |-> TRUE] }

\* the document d with text t appended to its last block
AddText(d, t) ==
  [d EXCEPT !.blocks[Len(d.blocks)] = @ \o t]

\* the document d with a block boundary appended
AddBreak(d, br) ==
  [blocks |-> Append(AddText(d, br.before).blocks, br.after),
   cuts |-> Append(d.cuts, br.new_slide)]

\* the documents of exactly k words: separator, word, separator, ...; every
\* separator is drawn from Separators or, when breaks is TRUE, from Breaks.
\* A document is its blocks and, for every boundary, whether it starts a
\* new slide.
RECURSIVE Documents(_, _)
Documents(k, breaks) ==
  LET prefixes == IF k = 0 THEN { [blocks |-> << <<>> >>, cuts |-> <<>>] }
                  ELSE { AddText(d, w) : d \in Documents(k - 1, breaks), w \in Words }
  IN { AddText(d, s) : d \in prefixes, s \in Separators }
     \cup (IF breaks THEN { AddBreak(d, b) : d \in prefixes, b \in Breaks } ELSE {})

DocumentsUpTo(n, breaks) == UNION { Documents(k, breaks) : k \in 0..n }

\* a shape without a text attribute (a picture), a shape with the text t
Picture == [has_text |-> FALSE, text |-> <<>>]

TextShape(t) == [has_text |-> TRUE, text |-> t]

\* the slide, counted from 1, of the n-th block of a document with
\* boundaries cuts
SlideNo(cuts, n) == 1 + Cardinality({ k \in 1..(n - 1) : cuts[k] })

\* the text shapes of slide s of the deck of document d, from block n on
RECURSIVE ShapesFrom(_, _, _)
ShapesFrom(d, s, n) ==
  IF n > Len(d.blocks) THEN <<>>
  ELSE (IF SlideNo(d.cuts, n) = s THEN <<TextShape(d.blocks[n])>> ELSE <<>>)
       \o ShapesFrom(d, s, n + 1)

\* the deck of document d: every slide holds a picture and then its text
\* shapes, one for each block
Deck(d) ==
  [s \in 1..SlideNo(d.cuts, Len(d.blocks)) |->
     <<Picture>> \o ShapesFrom(d, s, 1)]

\* the files a user may upload: the name's extension and the content, a
\* list of blocks (the pages of a pdf, the paragraphs of a docx, the whole
\* text of a txt) or, for a pptx, the slides, each a list of shapes; one
\* deck holds a picture and no text.  The name may end in none of the four
\* endings the script tests ("notes.rtf"; "REPORT.PDF", the test being
\* case-sensitive); the content of such a file, which the program does not
\* open, does not matter.
Uploads ==
  { [ext |-> "txt", blocks |-> d.blocks, slides |-> <<>>] :
      d \in DocumentsUpTo(MaxWords, FALSE) }
  \cup { [ext |-> e,
           blocks |-> IF e = "pptx" THEN <<>> ELSE d.blocks,
           slides |-> IF e = "pptx" THEN Deck(d) ELSE <<>>] :
           e \in {"pdf", "docx", "pptx"}, d \in DocumentsUpTo(MaxWords, TRUE) }
  \cup { [ext |-> "pptx", blocks |-> <<>>, slides |-> << <<Picture>> >>] }
  \cup { [ext |-> e, blocks |-> d.blocks, slides |-> <<>>] :
           e \in {"rtf", "PDF"}, d \in DocumentsUpTo(0, FALSE) }

(* -------------------------------- state -------------------------------- *)

VARIABLES
  uploaded_file,  \* the uploaded file
  pc,             \* where the script is
  findings,       \* the script's findings, skipped, raw_text (line 149)
  skipped,
  raw_text,
  scan,           \* results, skipped of the scan, with their origins
  text,           \* the text being scanned
  all_text,       \* scan_pdf's all_text
  page_number,    \* scan_pdf's page_number
  ui              \* what the page shows

vars == <<uploaded_file, pc, findings, skipped, raw_text, scan, text,
          all_text, page_number, ui>>

NothingShown ==
  [error |-> FALSE, warning |-> FALSE, total |-> 0, unique |-> 0,
   term_counts |-> <<>>, table |-> <<>>, skipped_table |-> <<>>]

\* a file was uploaded; findings, skipped, raw_text = [], [], ""
Init ==
  /\ uploaded_file \in Uploads
  /\ pc = "dispatch"
  /\ findings = <<>>
  /\ skipped = <<>>
  /\ raw_text = <<>>
  /\ scan = EmptyScan
  /\ text = <<>>
  /\ all_text = <<>>
  /\ page_number = 0
  /\ ui = NothingShown

(* ------------------------------- actions ------------------------------- *)

SupportedEndings == {"pdf", "docx", "txt", "pptx"}

\* the if/elif chain of lines 151-161 up to the call of the scan: the
\* reader's result is bound to raw_text and passed to scan_text, or scan_pdf
\* is entered with empty results; a name with none of the four endings takes
\* no branch
Dispatch ==
  /\ pc = "dispatch"
  /\ scan' = EmptyScan
  /\ all_text' = <<>>
  /\ page_number' = 0
  /\ CASE uploaded_file.ext = "pdf" ->
            /\ pc' = "scan_pdf"
            /\ UNCHANGED <<raw_text, text>>
       [] uploaded_file.ext = "docx" ->
            /\ pc' = "scan_text"
            /\ raw_text' = read_docx(uploaded_file)
            /\ text' = read_docx(uploaded_file)
       [] uploaded_file.ext = "txt" ->
            /\ pc' = "scan_text"
            /\ raw_text' = read_txt(uploaded_file)
            /\ text' = read_txt(uploaded_file)
       [] uploaded_file.ext = "pptx" ->
            /\ pc' = "scan_text"
            /\ raw_text' = read_pptx(uploaded_file)
            /\ text' = read_pptx(uploaded_file)
       [] OTHER ->
            /\ pc' = "render"
            /\ UNCHANGED <<raw_text, text>>
  /\ UNCHANGED <<uploaded_file, findings, skipped, ui>>

\* a reader or parser raises (a corrupt file, invalid UTF-8, a page whose
\* text cannot be extracted): the except clause of line 162 shows the error;
\* findings, skipped, raw_text keep the values of line 149, the tuple
\* assignment never having run
ReadFails ==
  /\ \/ pc = "dispatch" /\ uploaded_file.ext \in SupportedEndings
     \/ pc = "scan_pdf" /\ page_number < Len(uploaded_file.blocks)
  /\ ui' = [ui EXCEPT !.error = TRUE]
  /\ pc' = "render"
  /\ scan' = EmptyScan
  /\ text' = <<>>
  /\ all_text' = <<>>
  /\ page_number' = 0
  /\ UNCHANGED <<uploaded_file, findings, skipped, raw_text>>

\* findings, skipped, raw_text = scan_text(raw_text, banned_terms_dict):
\* the whole scan and the binding of what it returns
ScanText ==
  /\ pc = "scan_text"
  /\ \E r \in scan_text(text) :
       /\ scan' = r
       /\ findings' = r.results
       /\ skipped' = r.skipped
  /\ raw_text' = text
  /\ pc' = "render"
  /\ UNCHANGED <<uploaded_file, text, all_text, page_number, ui>>

\* scan_pdf, one pass of "for page_number, page in enumerate(doc, start=1)":
\* text = page.get_text(); all_text += text + "\n"; the loop over the
\* dictionary on that text
ScanPdfPage ==
  /\ pc = "scan_pdf"
  /\ page_number < Len(uploaded_file.blocks)
  /\ page_number' = page_number + 1
  /\ text' = uploaded_file.blocks[page_number + 1]
  /\ all_text' = all_text \o uploaded_file.blocks[page_number + 1] \o <<"\n">>
  /\ scan' \in PdfTerms({scan}, page_number + 1,
                        uploaded_file.blocks[page_number + 1], 1)
  /\ UNCHANGED <<uploaded_file, pc, findings, skipped, raw_text, ui>>

\* scan_pdf returns results, skipped, all_text, bound to findings, skipped,
\* raw_text
ScanPdfReturn ==
  /\ pc = "scan_pdf"
  /\ page_number = Len(uploaded_file.blocks)
  /\ findings' = scan.results
  /\ skipped' = scan.skipped
  /\ raw_text' = all_text
  /\ pc' = "render"
  /\ UNCHANGED <<uploaded_file, scan, text, all_text, page_number, ui>>

\* df['Banned Term'].value_counts(): each distinct value of the column with
\* the number of rows holding it
value_counts(rows) ==
  [g \in { rows[i].BannedTerm : i \in DOMAIN rows } |->
     Cardinality({ i \in DOMAIN rows : rows[i].BannedTerm = g })]

\* lines 165-212: the summary of the findings, or the warning that none were
\* found; the skipped table only inside "if raw_text and not df.empty"
Render ==
  /\ pc = "render"
  /\ pc' = "done"
  /\ IF findings # <<>>
       THEN ui' = [ui EXCEPT
                     !.total = Len(findings),
                     !.unique = Cardinality(DOMAIN value_counts(findings)),
                     !.table = findings,
                     !.term_counts = value_counts(findings),
                     !.skipped_table =
                        IF raw_text # <<>> THEN skipped ELSE <<>>]
       ELSE ui' = [ui EXCEPT !.warning = TRUE]
  /\ UNCHANGED <<uploaded_file, findings, skipped, raw_text, scan, text,
                 all_text, page_number>>

Next ==
  \/ Dispatch
  \/ ReadFails
  \/ ScanText
  \/ ScanPdfPage
  \/ ScanPdfReturn
  \/ Render

Spec == Init /\ [][Next]_vars

(* ------------------------- notions of the claims ----------------------- *)

\* the letters and digits of the model's alphabet
AlnumSet == CasedSet \cup Range(Digits)

IsAlnum(c) == c \in AlnumSet

\* the 0-based offsets at which term occurs in t, without regard to case
Occurrences(term, t) ==
  { i \in 0..(Len(t) - Len(term)) :
      Lower(Slice(t, i, i + Len(term))) = Lower(term) }

\* the occurrence of length n at offset i of t touches no alphanumeric
\* character on either side
IsWholeWord(t, i, n) ==
  /\ i = 0 \/ ~IsAlnum(t[i])
  /\ i + n = Len(t) \/ ~IsAlnum(t[i + n + 1])

WholeWordOccurrences(term, t) ==
  { i \in Occurrences(term, t) : IsWholeWord(t, i, Len(term)) }

\* the origins of all records the running scan has produced
AllOrigins == Range(scan.results_at) \cup Range(scan.skipped_at)

\* the text in which the match of origin o was found
ScannedText(o) ==
  IF o.block = 0 THEN text ELSE uploaded_file.blocks[o.block]

\* the scan has returned to the script
Returned ==
  /\ pc \in {"render", "done"}
  /\ uploaded_file.ext \in SupportedEndings
  /\ ~ui.error

TermOf(o) == banned_terms_dict[o.term].term

(* -------------------------------- claims ------------------------------- *)

\* C1: dictionary completeness.  For a plain-text file, once scan_text has
\* returned, the records (results and skipped together) of every dictionary
\* term are exactly its case-insensitive whole-word occurrences in the text:
\* one record per whole-word occurrence, and every record is one.
C1_DictionaryCompleteness ==
  (Returned /\ uploaded_file.ext = "txt") =>
    \A ti \in DOMAIN banned_terms_dict :
      LET term == banned_terms_dict[ti].term
          recs == { o \in AllOrigins : o.term = ti }
      IN /\ { o.gstart : o \in recs } = WholeWordOccurrences(term, text)
         /\ Cardinality(recs) = Cardinality(WholeWordOccurrences(term, text))
         /\ Len(scan.results) + Len(scan.skipped) = Cardinality(AllOrigins)

\* C2: word boundary.  No record, of scan_text or of scan_pdf, is for an
\* occurrence of its term that has an alphanumeric character immediately
\* before or immediately after it.
C2_WordBoundary ==
  \A o \in AllOrigins :
    /\ Lower(Slice(ScannedText(o), o.gstart, o.gend)) = Lower(TermOf(o))
    /\ IsWholeWord(ScannedText(o), o.gstart, o.gend - o.gstart)

\* s is in document order: by page, then by position in the text
InDocumentOrder(s) ==
  \A i, j \in DOMAIN s :
    i < j => \/ s[i].block < s[j].block
             \/ s[i].block = s[j].block /\ s[i].start <= s[j].start

\* C3 as claimed: the accepted list and the skipped list of a scan, after
\* each page of scan_pdf and when the scan returns, are each sorted by the
\* position of the match in the document, not by the dictionary order of
\* the term.
C3_DocumentOrder ==
  InDocumentOrder(scan.results_at) /\ InDocumentOrder(scan.skipped_at)

\* s is ordered by page, then by the dictionary index of the term, then by
\* position in the text
InTermMajorOrder(s) ==
  \A i, j \in DOMAIN s :
    i < j => \/ s[i].block < s[j].block
             \/ s[i].block = s[j].block /\ s[i].term < s[j].term
             \/ /\ s[i].block = s[j].block
                /\ s[i].term = s[j].term
                /\ s[i].end <= s[j].start

\* the i-th record of the list and the i-th origin tell of the same match
OriginsAgree ==
  /\ Len(scan.results) = Len(scan.results_at)
  /\ Len(scan.skipped) = Len(scan.skipped_at)
  /\ \A i \in DOMAIN scan.results :
       scan.results[i].BannedTerm =
         Slice(ScannedText(scan.results_at[i]), scan.results_at[i].start,
               scan.results_at[i].end)
  /\ \A i \in DOMAIN scan.skipped :
       scan.skipped[i].SkippedTerm =
         Slice(ScannedText(scan.skipped_at[i]), scan.skipped_at[i].start,
               scan.skipped_at[i].end)

\* C3 as amended: the accepted list and the skipped list of a scan, after
\* each page of scan_pdf and when the scan returns, are each ordered by page
\* (scan_pdf), then by the dictionary order of the term, and only then by
\* position in the text.
C3_TermMajorOrder ==
  /\ OriginsAgree
  /\ InTermMajorOrder(scan.results_at)
  /\ InTermMajorOrder(scan.skipped_at)

\* C3 witness: an accepted list of two terms in which a later record's match
\* stands earlier in the same text than an earlier record's match.
C3_Witness ==
  \E i, j \in DOMAIN scan.results_at :
    /\ i < j
    /\ scan.results_at[i].block = scan.results_at[j].block
    /\ scan.results_at[i].term < scan.results_at[j].term
    /\ scan.results_at[i].start > scan.results_at[j].start

\* the answers under which the recognizer holds, for the snippet of the
\* match of origin o, an entity of one of the labels whose text contains the
\* term; a recognizer that was not asked may hold any answer
EntityAnswers(o, labels) ==
  { a \in (IF o.answer = "NOT_ASKED" THEN NerAnswers ELSE {o.answer}) :
      \E e \in Range(doc_ents(a, ScannedText(o), o, o.snippet)) :
        /\ e.label \in labels
        /\ Contains(Lower(e.text), Lower(TermOf(o))) }

\* C4 as claimed: for any dictionary term, a match for whose snippet the
\* recognizer returns an organization, geopolitical entity or facility whose
\* text contains the term is in skipped and not in accepted.
C4_EntityTierEveryTerm ==
  \A o \in Range(scan.results_at) :
    EntityAnswers(o, {"ORG", "GPE", "FAC"}) = {}

\* C4 as amended: a match is in skipped, and not in accepted, exactly when
\* its term is one of "national" and "taiwan" and the recognizer returns an
\* entity labelled ORG whose text contains the term; a match of any other
\* term, or one whose entity has another label, is accepted.
C4_OrgTierContextTermsOnly ==
  /\ \A o \in Range(scan.skipped_at) :
       /\ Lower(TermOf(o)) \in ContextTerms
       /\ o.answer \in NerAnswers
       /\ EntityAnswers(o, {"ORG"}) = {o.answer}
       /\ o \notin Range(scan.results_at)
  /\ \A o \in Range(scan.results_at) :
       \/ Lower(TermOf(o)) \notin ContextTerms /\ o.answer = "NOT_ASKED"
       \/ /\ Lower(TermOf(o)) \in ContextTerms
          /\ o.answer \in NerAnswers
          /\ EntityAnswers(o, {"ORG"}) = {}

\* C4 witness: a scan that skipped one match of a context-sensitive term as
\* an organization and accepted another, recognized as a geopolitical entity.
C4_Witness ==
  /\ \E o \in Range(scan.skipped_at) : o.answer = "ORG"
  /\ \E o \in Range(scan.results_at) : o.answer = "GPE"

\* C5: nothing dropped, fail open.  There is no classifier delegate; once a
\* scan has returned, every match its patterns yielded is in exactly one of
\* accepted and skipped, the two lists together hold as many records as
\* there were matches, and a match of a context-sensitive term that the
\* named-entity tier did not catch is accepted.
C5_NothingDropped ==
  Returned =>
    LET key(o) == <<o.block, o.term, o.start>>
        accepted_keys == { key(scan.results_at[i]) : i \in DOMAIN scan.results_at }
        skipped_keys == { key(scan.skipped_at[i]) : i \in DOMAIN scan.skipped_at }
    IN /\ findings = scan.results
       /\ skipped = scan.skipped
       /\ Len(findings) + Len(skipped) = Cardinality(scan.matched)
       /\ Len(scan.results_at) = Len(findings)
       /\ Len(scan.skipped_at) = Len(skipped)
       /\ Cardinality(accepted_keys) = Len(findings)
       /\ Cardinality(skipped_keys) = Len(skipped)
       /\ accepted_keys \cap skipped_keys = {}
       /\ accepted_keys \cup skipped_keys = scan.matched
       /\ \A i \in DOMAIN scan.skipped_at : scan.skipped_at[i].answer = "ORG"

\* C5 witness: a returned scan with an accepted match of a context-sensitive
\* term and a skipped one.
C5_Witness ==
  /\ Returned
  /\ skipped # <<>>
  /\ \E o \in Range(scan.results_at) : Lower(TermOf(o)) \in ContextTerms

\* the records of accepted and skipped with their origins
RecordsWithOrigin ==
  { <<scan.results[i], scan.results_at[i]>> : i \in DOMAIN scan.results }
  \cup { <<scan.skipped[i], scan.skipped_at[i]>> : i \in DOMAIN scan.skipped }

\* C6: pdf page attribution.  Once scan_pdf has returned, every record
\* carries as Page the 1-based index of the page in whose text its match
\* lies whole (so no record is for a term split across pages), and a 3-page
\* pdf whose page 2 holds one dictionary term once, as a whole word, and
\* that holds no other term yields exactly one finding, with Page = 2, and
\* nothing skipped.
C6_PdfPageAttribution ==
  (Returned /\ uploaded_file.ext = "pdf") =>
    /\ \A x \in RecordsWithOrigin :
         /\ x[1].Page = x[2].block
         /\ x[1].Page \in DOMAIN uploaded_file.blocks
         /\ x[2].end <= Len(uploaded_file.blocks[x[1].Page])
    /\ \A ti \in DOMAIN banned_terms_dict :
         LET term == banned_terms_dict[ti].term
             occ(n, tj) == Occurrences(banned_terms_dict[tj].term,
                                       uploaded_file.blocks[n])
         IN ( /\ Len(uploaded_file.blocks) = 3
              /\ Cardinality(WholeWordOccurrences(term, uploaded_file.blocks[2])) = 1
              /\ Cardinality(occ(2, ti)) = 1
              /\ \A n \in 1..3, tj \in DOMAIN banned_terms_dict :
                   (n # 2 \/ tj # ti) => occ(n, tj) = {} )
            => /\ Len(findings) = 1
               /\ findings[1].Page = 2
               /\ skipped = <<>>

\* the slide number of every run of read_pptx's text, from slide n on
RECURSIVE RunSlides(_, _)
RunSlides(slides, n) ==
  IF n > Len(slides) THEN <<>>
  ELSE [r \in DOMAIN ShapeRuns(n, slides[n]) |-> n] \o RunSlides(slides, n + 1)

\* the offset in read_pptx's text at which its r-th run starts
RECURSIVE RunStart(_, _)
RunStart(runs, r) ==
  IF r = 1 THEN 0 ELSE RunStart(runs, r - 1) + Len(runs[r - 1]) + 1

\* the slide whose run holds offset off of read_pptx's text
SlideOf(file, off) ==
  LET runs == text_runs(file.slides, 1)
      r == CHOOSE x \in DOMAIN runs :
             /\ RunStart(runs, x) <= off
             /\ \A y \in DOMAIN runs : RunStart(runs, y) <= off => y <= x
  IN RunSlides(file.slides, 1)[r]

\* C7: slide attribution.  For a slide deck every match lies whole in the
\* text of one slide, and its record carries as location the number of that
\* slide, starting at 1.
C7_SlideAttribution ==
  uploaded_file.ext = "pptx" =>
    \A x \in RecordsWithOrigin :
      /\ SlideOf(uploaded_file, x[2].start) = SlideOf(uploaded_file, x[2].end - 1)
      /\ x[1].Page = SlideOf(uploaded_file, x[2].start)

\* the snippet of the claim: from at most 40 characters before the start of
\* the match to at most 60 characters after its end, newlines replaced
ClaimedSnippet(t, o) ==
  ReplaceNewlines(Slice(t, Max(0, o.start - 40), Min(Len(t), o.end + 60)))

\* C8: snippet window.  In scan_text and in scan_pdf alike the snippet of a
\* match is the block text from at most 40 characters before the start of
\* the match to at most 60 characters after its end, it holds no newline,
\* and the record's context is that snippet, stripped, between ellipses.
C8_SnippetWindow ==
  \A x \in RecordsWithOrigin :
    /\ x[2].snippet = ClaimedSnippet(ScannedText(x[2]), x[2])
    /\ "\n" \notin Range(x[2].snippet)
    /\ x[1].Context = <<".", ".", ".">> \o Strip(x[2].snippet) \o <<".", ".", ".">>

\* the sum of f over the keys ks
RECURSIVE SumOver(_, _)
SumOver(f, ks) ==
  IF ks = {} THEN 0
  ELSE LET k == CHOOSE x \in ks : TRUE
       IN f[k] + SumOver(f, ks \ {k})

\* the count the shown summary holds for a dictionary term, whatever the
\* letter case of its rows
CountShownFor(term) ==
  SumOver(ui.term_counts,
          { k \in DOMAIN ui.term_counts : Lower(k) = Lower(term) })

\* C9: term frequency summary.  Once the page is rendered, the counts shown
\* sum to the number of accepted findings, and the count of every dictionary
\* term is the number of accepted findings of that term, in whatever letter
\* case it stood in the document; skipped matches add to no count.
C9_TermFrequency ==
  (pc = "done" /\ Returned) =>
    /\ SumOver(ui.term_counts, DOMAIN ui.term_counts) = Len(findings)
    /\ \A ti \in DOMAIN banned_terms_dict :
         CountShownFor(banned_terms_dict[ti].term)
           = Cardinality({ i \in DOMAIN scan.results_at :
                             scan.results_at[i].term = ti })

\* C10: all or nothing.  When the file's ending is none of txt, docx, pdf,
\* pptx, or its reading raised, the rendered page reports an error, holds no
\* findings and no skipped records, and does not say that the scan found no
\* banned terms.
C10_AllOrNothing ==
  (pc = "done" /\ (uploaded_file.ext \notin SupportedEndings \/ ui.error)) =>
    /\ ui.error
    /\ ~ui.warning
    /\ findings = <<>> /\ skipped = <<>>
    /\ ui.table = <<>> /\ ui.skipped_table = <<>>

====
